---- MODULE Spec2Model ----
(***************************************************************************)
(* Model of gundi_core: the pydantic (v1) data contracts of schemas/v2.py  *)
(* and the system-event envelopes of events/*.py.                          *)
(*                                                                         *)
(* Python values are tagged records: [k |-> "none"], [k |-> "str", ...],   *)
(* [k |-> "num", ...], [k |-> "uuid", ...], [k |-> "dt", ...],             *)
(* [k |-> "dict", d |-> function from keys to values] and                  *)
(* [k |-> "model", cls |-> class name, d |-> function from field names].   *)
(* A key absent from an untyped input is a key outside DOMAIN of its d.    *)
(***************************************************************************)
EXTENDS Integers, Sequences, FiniteSets, TLC

VARIABLES
    locn,   \* the last Location(**input): [input, res], or Nothing
    ent,    \* the last domain entity construction: [cls, input, res], or Nothing
    enc,    \* entity.dict() of the entity in ent, or Nothing
    dec,    \* the result of decoding enc through the registry, or Nothing
    lookup, \* the last models_by_stream_type[key]: [key, res], or Nothing
    env,    \* the last envelope construction: [cls, input, res], or Nothing
    ser,    \* the last serialization of the envelope in env, or Nothing
    rcv,    \* the envelope the consumer decoded from ser, or Nothing
    got,    \* the entity the consumer decoded from rcv's payload, or Nothing
    asg,   \* the last attribute assignment on a constructed instance, or Nothing
    txt,   \* entity.json() of the entity in ent, or Nothing
    nk,    \* the last construction of a model with a natural key: [cls, input, res], or Nothing
    xdec   \* the serialized envelope decoded into another envelope class and encoded again, or Nothing

vars == <<locn, ent, enc, dec, lookup, env, ser, rcv, got, asg, txt, nk, xdec>>

-----------------------------------------------------------------------------
(* Python values *)

Nothing == [k |-> "nothing"]
None == [k |-> "none"]
Missing == [k |-> "missing"]
Str(s) == [k |-> "str", v |-> s]
Num(n) == [k |-> "num", v |-> n]
Uuid(h) == [k |-> "uuid", v |-> h]
Dict(f) == [k |-> "dict", d |-> f]
List(items) == [k |-> "list", items |-> items]
ModelInst(c, f) == [k |-> "model", cls |-> c, d |-> f]
EmptyMap == [x \in {} |-> None]

\* {key: v}, or {} when the caller leaves the key out
Opt(key, v) == IF v = Missing THEN EmptyMap ELSE (key :> v)

\* data.get(key, Missing)
Get(d, key) == IF key \in DOMAIN d THEN d[key] ELSE Missing

(* datetime: wall-clock seconds since 2021-03-21T00:00:00, and tzinfo as an
   offset in seconds; aware = FALSE is tzinfo None. *)
Dt(w, a, o) == [k |-> "dt", wall |-> w, aware |-> a, off |-> o]
\* the text of a datetime: separator and zone suffix as written
DtText(w, sep, tz) == [k |-> "dttext", wall |-> w, sep |-> sep, tz |-> tz]

\* zone suffixes pydantic's datetime_re accepts, with their utcoffset
TzOffsets ==
    ("Z" :> 0) @@ ("+00:00" :> 0) @@ ("+0000" :> 0) @@
    ("+02:00" :> 7200) @@ ("+0200" :> 7200) @@
    ("-07:00" :> -25200) @@ ("-0700" :> -25200)

\* datetime.isoformat()'s zone suffix
TzSuffix(off) ==
    CASE off = 0 -> "+00:00"
      [] off = 7200 -> "+02:00"
      [] off = -25200 -> "-07:00"

isoformat(dt) ==
    DtText(dt.wall, "T", IF dt.aware THEN TzSuffix(dt.off) ELSE "")

\* datetime.__eq__: two aware datetimes are equal when they are the same
\* instant, two naive ones when their fields agree, mixed never.
DtEq(a, b) ==
    IF a.aware /\ b.aware THEN a.wall - a.off = b.wall - b.off
    ELSE a.aware = b.aware /\ a.wall = b.wall

\* the text of a UUID: n is the UUID's value, form is how it is written
\* ("canonical", "upper", "nohyphen")
UuidText(n, form) == [k |-> "uuidtext", v |-> n, form |-> form]

\* isinstance(v, str)
IsStr(v) == v.k \in {"str", "dttext", "uuidtext"}

-----------------------------------------------------------------------------
(* pydantic field validation *)

Err(loc, type) == [loc |-> loc, type |-> type]
Ok(v) == [v |-> v, errs |-> {}, exc |-> ""]
Fail(types) == [v |-> None, errs |-> {Err(<<>>, t) : t \in types}, exc |-> ""]
Raise(e) == [v |-> None, errs |-> {}, exc |-> e]

\* pydantic.datetime_parse.parse_datetime
parse_datetime(v) ==
    CASE v.k = "dt" -> Ok(v)
      [] v.k = "num" -> Ok(Dt(v.v - 1616284800, TRUE, 0))
      [] v.k = "dttext" ->
            IF v.tz = "" THEN Ok(Dt(v.wall, FALSE, 0))
            ELSE IF v.tz \in DOMAIN TzOffsets
                 THEN Ok(Dt(v.wall, TRUE, TzOffsets[v.tz]))
                 ELSE Fail({"value_error.datetime"})
      [] OTHER -> Fail({"value_error.datetime"})

\* pydantic.validators.uuid_validator
uuid_validator(v) ==
    CASE v.k = "uuid" -> Ok(v)
      [] v.k = "uuidtext" -> Ok(Uuid(v.v))
      [] OTHER -> Fail({"type_error.uuid"})

\* pydantic.validators.str_validator
str_validator(v) ==
    CASE IsStr(v) -> Ok(v)
      [] v.k = "num" -> Ok(Str(ToString(v.v)))
      [] OTHER -> Fail({"type_error.str"})

MinLength == 2
MaxLength == 200

\* str with min_length=2, max_length=200, regex="^[a-z0-9_]+$"
constr_validator(texts, s) ==
    IF s.errs # {} THEN s
    ELSE IF texts[s.v.v].len < MinLength THEN Fail({"value_error.any_str.min_length"})
    ELSE IF texts[s.v.v].len > MaxLength THEN Fail({"value_error.any_str.max_length"})
    ELSE IF ~texts[s.v.v].matches THEN Fail({"value_error.str.regex"})
    ELSE s

\* str with regex="^[a-z0-9_]+$" alone
regex_validator(texts, s) ==
    IF s.errs # {} THEN s
    ELSE IF ~texts[s.v.v].matches THEN Fail({"value_error.str.regex"})
    ELSE s

natural_key_validator(texts, v) == constr_validator(texts, str_validator(v))

\* Union[UUID, str]: the members are tried in order, the first success wins
uuid_or_str_validator(v) ==
    CASE v.k \in {"uuid", "uuidtext"} -> uuid_validator(v)
      [] IsStr(v) \/ v.k = "num" -> str_validator(v)
      [] OTHER -> Fail({"type_error.uuid", "type_error.str"})

\* float_validator with gt / lt in place of ge / le
float_validator_exclusive(f, v) ==
    IF v.k # "num" THEN Fail({"type_error.float"})
    ELSE IF f.hasGe /\ ~(v.v > f.ge) THEN Fail({"value_error.number.not_gt"})
    ELSE IF f.hasLe /\ ~(v.v < f.le) THEN Fail({"value_error.number.not_lt"})
    ELSE Ok(v)

\* float with the ge / le of its Field
float_validator(f, v) ==
    IF v.k # "num" THEN Fail({"type_error.float"})
    ELSE IF f.hasGe /\ ~(v.v >= f.ge) THEN Fail({"value_error.number.not_ge"})
    ELSE IF f.hasLe /\ ~(v.v <= f.le) THEN Fail({"value_error.number.not_le"})
    ELSE Ok(v)

int_validator(v) ==
    IF v.k = "num" THEN Ok(v) ELSE Fail({"type_error.integer"})

dict_validator(v) ==
    IF v.k = "dict" THEN Ok(v) ELSE Fail({"type_error.dict"})

\* a payload type whose definition is not in schemas/v2.py: a mapping is
\* accepted and carried as it is
opaque_validator(v) ==
    IF v.k \in {"dict", "model"} THEN Ok(Dict(v.d)) ELSE Fail({"type_error.dict"})

\* A field of a model: Field(default, ...) and the annotation it is applied to.
Fld(name, type, required, default, allow_none) ==
    [name |-> name, alias |-> name, type |-> type, sub |-> "", required |-> required,
     default |-> default, allow_none |-> allow_none,
     hasGe |-> FALSE, ge |-> 0, hasLe |-> FALSE, le |-> 0,
     const |-> FALSE, post |-> "", natural |-> FALSE, regex |-> FALSE]

\* Union[UUID, str] = Field(None) and Optional[Union[UUID, str]] = Field(None)
IdFld(name) == Fld(name, "uuid_or_str", FALSE, None, TRUE)
\* Optional[str] = Field(default)
OptStrFld(name, default) == Fld(name, "str", FALSE, default, TRUE)
\* Optional[Dict[str, Any]] = Field(default)
OptDictFld(name, default) == Fld(name, "dict", FALSE, default, TRUE)
\* observation_type: str = Field(prefix), const=True left out
ConstFld_no_const(name, value) == Fld(name, "str", FALSE, Str(value), FALSE)

\* observation_type: str = Field(prefix, const=True)
ConstFld(name, value) ==
    [Fld(name, "str", FALSE, Str(value), FALSE) EXCEPT !.const = TRUE]

-----------------------------------------------------------------------------
(* schemas/v2.py *)

StreamPrefixEnum ==
    [observation |-> "obv", observation_update |-> "obvu", event |-> "ev",
     event_update |-> "evu", attachment |-> "att"]

LatMin == -90
LatMax == 90
LonMin == -180
LonMax == 360

\* Location with alt: float = Field(0.0, ge=0.0)
Location_alt_ge ==
    << [Fld("lat", "float", TRUE, None, FALSE)
          EXCEPT !.hasGe = TRUE, !.ge = LatMin, !.hasLe = TRUE, !.le = LatMax],
       [Fld("lon", "float", TRUE, None, FALSE)
          EXCEPT !.hasGe = TRUE, !.ge = LonMin, !.hasLe = TRUE, !.le = LonMax],
       [Fld("alt", "float", FALSE, Num(0), FALSE) EXCEPT !.hasGe = TRUE, !.ge = 0],
       Fld("hdop", "int", FALSE, None, TRUE),
       Fld("vdop", "int", FALSE, None, TRUE) >>

Location ==
    << [Fld("lat", "float", TRUE, None, FALSE)
          EXCEPT !.hasGe = TRUE, !.ge = LatMin, !.hasLe = TRUE, !.le = LatMax],
       [Fld("lon", "float", TRUE, None, FALSE)
          EXCEPT !.hasGe = TRUE, !.ge = LonMin, !.hasLe = TRUE, !.le = LonMax],
       Fld("alt", "float", FALSE, Num(0), FALSE),
       Fld("hdop", "int", FALSE, None, TRUE),
       Fld("vdop", "int", FALSE, None, TRUE) >>

GundiBaseModel ==
    << IdFld("gundi_id"),
       IdFld("related_to"),
       Fld("owner", "str", FALSE, Str("na"), FALSE),
       IdFld("data_provider_id"),
       OptDictFld("annotations", None) >>

\* clean_recorded_at returning val without the replace(tzinfo=timezone.utc)
clean_recorded_at_no_replace(val) ==
    IF val.k = "none" THEN Raise("AttributeError") ELSE Ok(val)

\* @validator("recorded_at") of Observation and of Event
clean_recorded_at(val) ==
    IF val.k = "none" THEN Raise("AttributeError")   \* None has no tzinfo
    ELSE IF ~val.aware THEN Ok(Dt(val.wall, TRUE, 0))
    ELSE Ok(val)

Observation ==
    GundiBaseModel \o
    << IdFld("source_id"),
       OptStrFld("external_source_id", Str("None")),
       OptStrFld("source_name", None),
       OptStrFld("type", Str("tracking-device")),
       OptStrFld("subject_type", None),
       [Fld("recorded_at", "datetime", TRUE, None, FALSE)
          EXCEPT !.post = "clean_recorded_at"],
       [Fld("location", "model", TRUE, None, FALSE) EXCEPT !.sub = "Location"],
       OptDictFld("additional", None),
       ConstFld("observation_type", StreamPrefixEnum.observation) >>

\* Event with recorded_at: Optional[datetime] = Field(None)
Event_recorded_at_optional ==
    GundiBaseModel \o
    << IdFld("source_id"),
       OptStrFld("external_source_id", Str("none")),
       [Fld("recorded_at", "datetime", FALSE, None, TRUE)
          EXCEPT !.post = "clean_recorded_at"],
       [Fld("location", "model", FALSE, None, TRUE) EXCEPT !.sub = "Location"],
       OptStrFld("title", None),
       OptStrFld("event_type", None),
       OptDictFld("event_details", None),
       OptDictFld("geometry", None),
       ConstFld("observation_type", StreamPrefixEnum.event) >>

Event ==
    GundiBaseModel \o
    << IdFld("source_id"),
       OptStrFld("external_source_id", Str("none")),
       [Fld("recorded_at", "datetime", TRUE, None, TRUE)
          EXCEPT !.post = "clean_recorded_at"],
       [Fld("location", "model", FALSE, None, TRUE) EXCEPT !.sub = "Location"],
       OptStrFld("title", None),
       OptStrFld("event_type", None),
       OptDictFld("event_details", None),
       OptDictFld("geometry", None),
       ConstFld("observation_type", StreamPrefixEnum.event) >>

EventUpdate ==
    GundiBaseModel \o
    << IdFld("source_id"),
       OptStrFld("external_source_id", Str("none")),
       OptDictFld("changes", None),
       ConstFld("observation_type", StreamPrefixEnum.event_update) >>

Attachment ==
    GundiBaseModel \o
    << IdFld("source_id"),
       OptStrFld("external_source_id", Str("none")),
       Fld("file_path", "str", TRUE, None, FALSE),
       ConstFld("observation_type", StreamPrefixEnum.attachment) >>

\* the natural keys used as inputs, with len(s) and whether ^[a-z0-9_]+$ matches
NaturalKeyTexts ==
    ("" :> [len |-> 0, matches |-> FALSE]) @@
    ("a" :> [len |-> 1, matches |-> TRUE]) @@
    ("auth" :> [len |-> 4, matches |-> TRUE]) @@
    ("ab" :> [len |-> 2, matches |-> TRUE]) @@
    ("Push Events" :> [len |-> 11, matches |-> FALSE]) @@
    ("aaaaaaaaaaaaaaaaaaaaaaaaaaaaaaaaaaaaaaaaaaaaaaaaaaaaaaaaaaaaaaaaaaaaaaaaaaaaaaaaaaaaaaaaaaaaaaaaaaaaaaaaaaaaaaaaaaaaaaaaaaaaaaaaaaaaaaaaaaaaaaaaaaaaaaaaaaaaaaaaaaaaaaaaaaaaaaaaaaaaaaaaaaaaaaaaaaaaaaaa" :> [len |-> 200, matches |-> TRUE]) @@
    ("aaaaaaaaaaaaaaaaaaaaaaaaaaaaaaaaaaaaaaaaaaaaaaaaaaaaaaaaaaaaaaaaaaaaaaaaaaaaaaaaaaaaaaaaaaaaaaaaaaaaaaaaaaaaaaaaaaaaaaaaaaaaaaaaaaaaaaaaaaaaaaaaaaaaaaaaaaaaaaaaaaaaaaaaaaaaaaaaaaaaaaaaaaaaaaaaaaaaaaaaa" :> [len |-> 201, matches |-> TRUE])

\* value: Optional[str] = Field("", min_length=2, max_length=200, regex="^[a-z0-9_]+$")
NaturalKeyFld == [OptStrFld("value", Str("")) EXCEPT !.natural = TRUE]

\* <name>_schema: Optional[Dict[str, Any]] = Field({}, alias="schema")
SchemaFld(name) == [OptDictFld(name, Dict(EmptyMap)) EXCEPT !.alias = "schema"]

ConnectionIntegrationType ==
    << IdFld("id"), OptStrFld("name", Str("")), NaturalKeyFld >>

IntegrationAction ==
    << IdFld("id"),
       OptStrFld("type", Str("")),
       OptStrFld("name", Str("")),
       NaturalKeyFld,
       OptStrFld("description", Str("")),
       SchemaFld("action_schema") >>

IntegrationActionSummary ==
    << IdFld("id"),
       OptStrFld("type", Str("")),
       OptStrFld("name", Str("")),
       [OptStrFld("value", Str("")) EXCEPT !.natural = TRUE] >>

IntegrationWebhook ==
    << IdFld("id"),
       OptStrFld("name", Str("")),
       NaturalKeyFld,
       [OptStrFld("description", Str("")) EXCEPT !.regex = TRUE],
       SchemaFld("webhook_schema") >>

IntegrationWebhookSummary ==
    << IdFld("id"), OptStrFld("name", Str("")), NaturalKeyFld >>

IntegrationType ==
    << IdFld("id"),
       OptStrFld("name", Str("")),
       NaturalKeyFld,
       OptStrFld("description", Str("")),
       [Fld("actions", "list", FALSE, None, TRUE) EXCEPT !.sub = "IntegrationAction"],
       [Fld("webhook", "model", FALSE, None, TRUE) EXCEPT !.sub = "IntegrationWebhook"] >>

IntegrationActionConfiguration ==
    << IdFld("id"),
       IdFld("integration"),
       [Fld("action", "model", TRUE, None, FALSE) EXCEPT !.sub = "IntegrationActionSummary"],
       OptDictFld("data", Dict(EmptyMap)) >>

DispatchedObservation ==
    << IdFld("gundi_id"),
       IdFld("related_to"),
       IdFld("external_id"),
       IdFld("data_provider_id"),
       IdFld("destination_id"),
       Fld("delivered_at", "datetime", TRUE, None, TRUE) >>

ERAttachment == GundiBaseModel \o << Fld("file_path", "str", TRUE, None, FALSE) >>

EREventUpdate == GundiBaseModel \o << OptDictFld("changes", None) >>

\* the registry with the event entry holding Observation
models_by_stream_type_copied ==
    (StreamPrefixEnum.observation :> "Observation") @@
    (StreamPrefixEnum.event :> "Observation") @@
    (StreamPrefixEnum.attachment :> "Attachment")

\* the stream-type registry: discriminator -> entity class
models_by_stream_type ==
    (StreamPrefixEnum.observation :> "Observation") @@
    (StreamPrefixEnum.event :> "Event") @@
    (StreamPrefixEnum.attachment :> "Attachment")

\* cls.__fields__
ModelFields(cls) ==
    CASE cls = "Location" -> Location
      [] cls = "Observation" -> Observation
      [] cls = "Event" -> Event
      [] cls = "EventUpdate" -> EventUpdate
      [] cls = "Attachment" -> Attachment
      [] cls = "IntegrationActionSummary" -> IntegrationActionSummary
      [] cls = "ConnectionIntegrationType" -> ConnectionIntegrationType
      [] cls = "IntegrationAction" -> IntegrationAction
      [] cls = "IntegrationWebhook" -> IntegrationWebhook
      [] cls = "IntegrationWebhookSummary" -> IntegrationWebhookSummary
      [] cls = "IntegrationType" -> IntegrationType
      [] cls = "IntegrationActionConfiguration" -> IntegrationActionConfiguration
      [] cls = "DispatchedObservation" -> DispatchedObservation
      [] cls = "ERAttachment" -> ERAttachment
      [] cls = "EREventUpdate" -> EREventUpdate

-----------------------------------------------------------------------------
(* pydantic model validation: validate_model and ModelField.validate *)

RECURSIVE ValidateFields(_, _, _)

\* what a field of model type makes of the nested model's validation r
Nested(r) ==
    IF r.status = "ok" THEN Ok(r.value)
    ELSE IF r.status = "ValidationError"
         THEN [v |-> None, errs |-> r.errors, exc |-> ""]
         ELSE Raise(r.status)

\* List[Model]: r[i] is what the model's validation made of item i; the
\* errors of item i are reported under its index
ListCollect(r) ==
    LET raised == { i \in DOMAIN r : r[i].exc # "" }
    IN  IF raised # {}
        THEN Raise(r[CHOOSE i \in raised : \A j \in raised : i <= j].exc)
        ELSE [v |-> List([i \in DOMAIN r |-> r[i].v]),
              errs |-> UNION { { Err(<<ToString(i - 1)>> \o e.loc, e.type) : e \in r[i].errs }
                               : i \in DOMAIN r },
              exc |-> ""]

\* one item of a List[Model]
ItemValidate(sub, item) ==
    IF item.k = "model" /\ item.cls = sub THEN Ok(item)
    ELSE IF item.k \in {"dict", "model"}
         THEN Nested(ValidateFields(sub, ModelFields(sub), item.d))
         ELSE Fail({"type_error.dict"})

\* the validators of the field's type, on a value that is not None
TypeValidate(f, v) ==
    CASE f.type = "float" -> float_validator(f, v)
      [] f.type = "int" -> int_validator(v)
      [] f.type = "str" ->
            IF f.natural THEN natural_key_validator(NaturalKeyTexts, v)
            ELSE IF f.regex THEN regex_validator(NaturalKeyTexts, str_validator(v))
            ELSE str_validator(v)
      [] f.type = "datetime" -> parse_datetime(v)
      [] f.type = "uuid" -> uuid_validator(v)
      [] f.type = "uuid_or_str" -> uuid_or_str_validator(v)
      [] f.type = "dict" -> dict_validator(v)
      [] f.type = "any" -> Ok(v)
      [] f.type = "opaque" -> opaque_validator(v)
      [] f.type = "list" ->
            IF v.k = "list"
            THEN ListCollect([i \in DOMAIN v.items |-> ItemValidate(f.sub, v.items[i])])
            ELSE Fail({"type_error.list"})
      [] f.type = "model" ->
            IF v.k = "model" /\ v.cls = f.sub THEN Ok(v)
            ELSE IF v.k \in {"dict", "model"}
                 THEN Nested(ValidateFields(f.sub, ModelFields(f.sub), v.d))
                 ELSE Fail({"type_error.dict"})

\* the field's post_validators: the const check, then the class validators
PostValidate(f, v) ==
    IF f.const /\ v # f.default THEN Fail({"value_error.const"})
    ELSE IF f.post = "clean_recorded_at" THEN clean_recorded_at(v)
    ELSE Ok(v)

HasPost(f) == f.const \/ f.post # ""

\* the post_validators run on what the type's validators returned, t
AfterType(f, t) ==
    IF t.errs # {} \/ t.exc # "" THEN t ELSE PostValidate(f, t.v)

\* ModelField.validate
FieldValidate(f, v) ==
    IF v = None
    THEN IF f.allow_none
         THEN IF HasPost(f) THEN PostValidate(f, v) ELSE Ok(None)
         ELSE Fail({"type_error.none.not_allowed"})
    ELSE AfterType(f, TypeValidate(f, v))

\* one iteration of validate_model's loop over the fields
ValidateField(f, data) ==
    IF f.alias \notin DOMAIN data
    THEN IF f.required THEN Fail({"value_error.missing"})
         ELSE Ok(f.default)
    ELSE FieldValidate(f, data[f.alias])

\* the end of validate_model: r[i] is the outcome of field i. A validator
\* that raises something other than ValueError, TypeError or AssertionError
\* is not caught; errors raise ValidationError; else the instance is built.
Collect(cls, fs, r) ==
    LET errors == UNION { { Err(<<fs[i].alias>> \o e.loc, e.type) : e \in r[i].errs }
                          : i \in 1..Len(fs) }
        raised == { i \in 1..Len(fs) : r[i].exc # "" }
    IN  IF raised # {}
        THEN [status |-> r[CHOOSE i \in raised : \A j \in raised : i <= j].exc,
              value |-> None, errors |-> {}]
        ELSE IF errors # {}
        THEN [status |-> "ValidationError", value |-> None, errors |-> errors]
        ELSE [status |-> "ok",
              value |-> ModelInst(cls, [n \in {fs[i].name : i \in 1..Len(fs)} |->
                          r[CHOOSE i \in 1..Len(fs) : fs[i].name = n].v]),
              errors |-> {}]

\* validate_model over the fields fs of cls: [status, value, errors]
ValidateFields(cls, fs, data) ==
    Collect(cls, fs, [i \in 1..Len(fs) |-> ValidateField(fs[i], data)])

\* cls(**data)
ValidateModel(cls, data) == ValidateFields(cls, ModelFields(cls), data)

-----------------------------------------------------------------------------
(* inputs *)

Lats == {Missing, None, Str("north"), Num(-91), Num(-90), Num(0), Num(90), Num(91)}
Lons == {Missing, Num(-181), Num(-180), Num(35), Num(360), Num(361)}
Alts == {Missing, Num(-5), Num(0), Num(1200)}

LocationInputs ==
    { Opt("lat", la) @@ Opt("lon", lo) @@ Opt("alt", al) :
        la \in Lats, lo \in Lons, al \in Alts }

-----------------------------------------------------------------------------

\* 2021-03-21 12:01:02 and 2021-03-27 11:15:00 as wall-clock seconds
W1 == 12 * 3600 + 1 * 60 + 2
W2 == 6 * 86400 + 11 * 3600 + 15 * 60

RecordedAts ==
    { Missing, None, Str("yesterday"),
      DtText(W1, "T", ""),            \* 2021-03-21T12:01:02
      DtText(W1, "T", "+00:00"),      \* 2021-03-21T12:01:02+00:00
      DtText(W1, " ", "-0700"),       \* 2021-03-21 12:01:02-0700
      DtText(W2, " ", "+0200"),       \* 2021-03-27 11:15:00+0200
      Dt(W2, FALSE, 0), Dt(W2, TRUE, 0) }

GoodLocation == Dict(("lat" :> Num(-1)) @@ ("lon" :> Num(35)))

EntityLocations ==
    { Missing, None, Str("here"), GoodLocation,
      Dict(("lat" :> Num(91)) @@ ("lon" :> Num(35))),
      Dict(("lat" :> Num(91)) @@ ("lon" :> Num(361))),
      Dict("lat" :> Num(90)) }

GundiIds ==
    { Missing, UuidText(101, "canonical"), UuidText(101, "upper"),
      UuidText(101, "nohyphen"), Str("legacy-7") }

EntityClasses == {"Observation", "Event", "EventUpdate", "Attachment"}

\* what a caller may pass as observation_type
ObservationTypes == { Missing } \cup { Str(p) : p \in {"obv", "ev", "evu", "att", "xyz"} }

FilePaths == { Missing, None, Str("photos/cam1.jpg") }

ChangeSets == { Missing, Dict("title" :> Str("Poachers")) }

EntityInputs(cls) ==
    CASE cls \in {"Observation", "Event"} ->
            { Opt("gundi_id", g) @@ Opt("recorded_at", r) @@ Opt("location", l)
                @@ Opt("observation_type", o) :
              g \in GundiIds, r \in RecordedAts, l \in EntityLocations,
              o \in ObservationTypes }
      [] cls = "EventUpdate" ->
            { Opt("gundi_id", g) @@ Opt("changes", c) @@ Opt("observation_type", o) :
              g \in GundiIds, c \in ChangeSets, o \in ObservationTypes }
      [] cls = "Attachment" ->
            { Opt("gundi_id", g) @@ Opt("file_path", p) @@ Opt("observation_type", o) :
              g \in GundiIds, p \in FilePaths, o \in ObservationTypes }

\* the classes with a natural key
NaturalKeyClasses ==
    { "IntegrationType", "ConnectionIntegrationType", "IntegrationAction",
      "IntegrationActionSummary", "IntegrationWebhook", "IntegrationWebhookSummary" }

NaturalKeys == { Missing, None } \cup { Str(t) : t \in DOMAIN NaturalKeyTexts }

Descriptions == { Missing, Str("Push Events") }

Webhooks ==
    { Missing, None, Dict("value" :> Str("Push Events")),
      Dict(("value" :> Str("auth")) @@ ("schema" :> Dict(EmptyMap))) }

ActionLists ==
    { Missing, List(<< Dict("value" :> Str("auth")), Dict("value" :> Str("a")) >>) }

NaturalKeyInputs(cls) ==
    CASE cls = "IntegrationType" ->
            { Opt("value", v) @@ Opt("webhook", w) @@ Opt("actions", a) :
              v \in NaturalKeys, w \in Webhooks, a \in ActionLists }
      [] cls \in {"IntegrationWebhook", "IntegrationAction"} ->
            { Opt("value", v) @@ Opt("description", d) @@ Opt("schema", sc) :
              v \in NaturalKeys, d \in Descriptions, sc \in {Missing, Dict(EmptyMap)} }
      [] OTHER -> { Opt("value", v) : v \in NaturalKeys }

LookupKeys == { None } \cup { Str(p) : p \in {"obv", "obvu", "ev", "evu", "att", "xyz", "OBV", ""} }

-----------------------------------------------------------------------------
(* encoding and decoding *)

\* include= / exclude= of dict(): None, or a set of field names
NoKeys == [given |-> FALSE, keys |-> {}]
Keys(ks) == [given |-> TRUE, keys |-> ks]

RECURSIVE ToDict(_)
\* BaseModel._get_value with to_dict=True: nested models become dicts
ToDict(v) ==
    IF v.k \in {"model", "dict"}
    THEN Dict([n \in DOMAIN v.d |-> ToDict(v.d[n])])
    ELSE v

\* BaseModel.dict(include=..., exclude=...)
BaseModel_dict(self, include, exclude) ==
    LET keys == (IF include.given THEN DOMAIN self.d \cap include.keys ELSE DOMAIN self.d)
                  \ (IF exclude.given THEN exclude.keys ELSE {})
    IN  Dict([n \in keys |-> ToDict(self.d[n])])

RECURSIVE JsonEncode(_)
\* json.dumps(data, default=pydantic_encoder): a UUID becomes str(uuid), a
\* datetime its isoformat()
JsonEncode(v) ==
    CASE v.k = "dict" -> Dict([n \in DOMAIN v.d |-> JsonEncode(v.d[n])])
      [] v.k = "uuid" -> UuidText(v.v, "canonical")
      [] v.k = "dt" -> isoformat(v)
      [] OTHER -> v

\* BaseModel.json(include=..., exclude=...)
BaseModel_json(self, include, exclude) ==
    JsonEncode(BaseModel_dict(self, include, exclude))

\* mapping[key]: the value, or KeyError
getitem(mapping, key) ==
    IF key.k = "str" /\ key.v \in DOMAIN mapping
    THEN [found |-> TRUE, value |-> mapping[key.v], error |-> ""]
    ELSE [found |-> FALSE, value |-> "", error |-> "KeyError"]

\* read observation_type, look the class up in the registry, validate against it
decode(data) ==
    LET r == getitem(models_by_stream_type, Get(data.d, "observation_type"))
    IN  IF r.found THEN ValidateModel(r.value, data.d)
        ELSE [status |-> "UnknownDiscriminatorError", value |-> None, errors |-> {}]

-----------------------------------------------------------------------------
(* events/core.py, dispatchers.py, gundi_configs.py, transformers.py *)

\* the annotation of payload in each envelope class
PayloadType ==
    [SystemEventBaseModel |-> "Any",
     ObservationDelivered |-> "DispatchedObservation",
     ObservationDeliveryFailed |-> "DispatchedObservation",
     ObservationUpdated |-> "UpdatedObservation",
     ObservationUpdateFailed |-> "UpdatedObservation",
     IntegrationCreated |-> "IntegrationSummary",
     IntegrationUpdated |-> "IntegrationConfigChanges",
     IntegrationDeleted |-> "DeletionDetails",
     ActionConfigCreated |-> "IntegrationActionConfiguration",
     ActionConfigUpdated |-> "ActionConfigChanges",
     ActionConfigDeleted |-> "DeletionDetails",
     EventTransformedER |-> "EREvent",
     EventUpdateTransformedER |-> "EREventUpdate",
     AttachmentTransformedER |-> "ERAttachment",
     ObservationTransformedER |-> "ERObservation",
     EventTransformedSMART |-> "SMARTCompositeRequest",
     EventUpdateTransformedSMART |-> "SMARTUpdateRequest",
     EventTransformedWPSWatch |-> "WPSWatchImageMetadata",
     AttachmentTransformedWPSWatch |-> "WPSWatchImage"]

EnvelopeClasses == DOMAIN PayloadType

\* the payload types that schemas/v2.py defines
DefinedPayloadTypes ==
    {"DispatchedObservation", "IntegrationActionConfiguration", "ERAttachment", "EREventUpdate"}

\* the payload field of cls
PayloadField(cls) ==
    IF cls = "SystemEventBaseModel" THEN Fld("payload", "any", FALSE, Dict(EmptyMap), TRUE)
    ELSE IF PayloadType[cls] \in DefinedPayloadTypes
         THEN [Fld("payload", "model", TRUE, None, FALSE) EXCEPT !.sub = PayloadType[cls]]
         ELSE Fld("payload", "opaque", TRUE, None, FALSE)

\* the fields of an envelope class; id and now are what uuid.uuid4() and
\* datetime.now(timezone.utc) return at this construction
SystemEventBaseModel(cls, id, now) ==
    << Fld("event_id", "uuid", FALSE, Uuid(id), FALSE),
       Fld("timestamp", "datetime", FALSE, Dt(now, TRUE, 0), FALSE),
       OptStrFld("schema_version", Str("v1")),
       PayloadField(cls) >>

\* dict() tagging with the name of the base class, not of self.__class__
SystemEventBaseModel_dict_base(self, include, exclude) ==
    LET json_dict == BaseModel_dict(self, include, exclude).d
    IN  Dict([n \in DOMAIN json_dict \cup {"event_type"} |->
                IF n = "event_type" THEN Str("SystemEventBaseModel") ELSE json_dict[n]])

\* dict() without the override: BaseModel.dict() alone
SystemEventBaseModel_dict_untagged(self, include, exclude) ==
    BaseModel_dict(self, include, exclude)

\* SystemEventBaseModel.dict(): BaseModel.dict() plus event_type
SystemEventBaseModel_dict(self, include, exclude) ==
    LET json_dict == BaseModel_dict(self, include, exclude).d
    IN  Dict([n \in DOMAIN json_dict \cup {"event_type"} |->
                IF n = "event_type" THEN Str(self.cls) ELSE json_dict[n]])

\* SystemEventBaseModel.json(): BaseModel.json() is inherited, which
\* serializes self._iter() and does not call dict()
SystemEventBaseModel_json(self, include, exclude) ==
    BaseModel_json(self, include, exclude)

MaxIds == 2
MaxClock == 2
MaxEncodes == 2

\* what a caller may pass as payload
GoodDispatched ==
    Dict(("gundi_id" :> UuidText(101, "upper")) @@ ("delivered_at" :> DtText(W2, " ", "+0200")))
PayloadInputs ==
    { Missing, Str("garbage"), Dict(EmptyMap), GoodDispatched,
      Dict("file_path" :> Str("photos/cam1.jpg")),
      Dict("action" :> Dict("value" :> Str("auth"))) }

EventTypeInputs == { Missing, Str("Bogus") }
SchemaVersions == { Missing, None, Str("v2") }
EventIds == { Missing, UuidText(77, "canonical") }
Timestamps == { Missing, DtText(W1, "T", ""), DtText(W2, " ", "+0200") }

EnvelopeInputs ==
    { Opt("event_id", i) @@ Opt("timestamp", t) @@ Opt("schema_version", v)
        @@ Opt("payload", p) @@ Opt("event_type", e) :
      i \in EventIds, t \in Timestamps, v \in SchemaVersions, p \in PayloadInputs,
      e \in EventTypeInputs }

\* the envelope classes a transformer wraps an encoded entity in
WrapClasses ==
    { "SystemEventBaseModel", "EventTransformedER", "EventUpdateTransformedER",
      "AttachmentTransformedER", "ObservationTransformedER" }

\* the include= / exclude= arguments tried
IncludeArgs == { NoKeys, Keys({"payload", "event_id"}) }
ExcludeArgs == { NoKeys, Keys({"event_type", "payload"}) }

-----------------------------------------------------------------------------
(* operations *)

Init ==
    /\ locn = Nothing
    /\ ent = Nothing
    /\ enc = Nothing
    /\ dec = Nothing
    /\ lookup = Nothing
    /\ env = Nothing
    /\ ser = Nothing
    /\ rcv = Nothing
    /\ got = Nothing
    /\ asg = Nothing
    /\ txt = Nothing
    /\ nk = Nothing
    /\ xdec = Nothing

\* nothing has been constructed yet
Fresh ==
    vars = <<Nothing, Nothing, Nothing, Nothing, Nothing, Nothing, Nothing, Nothing, Nothing, Nothing, Nothing, Nothing, Nothing>>

\* Location(**input)
ConstructLocation ==
    /\ Fresh
    /\ \E input \in LocationInputs :
        locn' = [input |-> input, res |-> ValidateModel("Location", input)]
    /\ UNCHANGED <<ent, enc, dec, lookup, env, ser, rcv, got, asg, txt, nk, xdec>>

\* IntegrationType(**input), ..., IntegrationWebhookSummary(**input)
ConstructNaturalKeyed ==
    /\ Fresh
    /\ \E cls \in NaturalKeyClasses : \E input \in NaturalKeyInputs(cls) :
        nk' = [cls |-> cls, input |-> input, res |-> ValidateModel(cls, input)]
    /\ UNCHANGED <<locn, ent, enc, dec, lookup, env, ser, rcv, got, asg, txt, xdec>>

\* Observation(**input), Event(**input), EventUpdate(**input), Attachment(**input)
ConstructEntity ==
    /\ Fresh
    /\ \E cls \in EntityClasses : \E input \in EntityInputs(cls) :
        ent' = [cls |-> cls, input |-> input, res |-> ValidateModel(cls, input)]
    /\ UNCHANGED <<locn, enc, dec, lookup, env, ser, rcv, got, asg, txt, nk, xdec>>

\* entity.dict()
EncodeEntity ==
    /\ ent # Nothing /\ ent.res.status = "ok"
    /\ enc = Nothing /\ asg = Nothing /\ txt = Nothing
    /\ enc' = BaseModel_dict(ent.res.value, NoKeys, NoKeys)
    /\ UNCHANGED <<locn, ent, dec, lookup, env, ser, rcv, got, asg, txt, nk, xdec>>

\* entity.json()
EntityJson ==
    /\ ent # Nothing /\ ent.res.status = "ok"
    /\ enc = Nothing /\ asg = Nothing /\ txt = Nothing
    /\ txt' = BaseModel_json(ent.res.value, NoKeys, NoKeys)
    /\ UNCHANGED <<locn, ent, enc, dec, lookup, env, ser, rcv, got, asg, nk, xdec>>

\* decode the encoded entity through the registry
DecodeEntity ==
    /\ enc # Nothing /\ dec = Nothing /\ env = Nothing
    /\ dec' = decode(enc)
    /\ UNCHANGED <<locn, ent, enc, lookup, env, ser, rcv, got, asg, txt, nk, xdec>>

\* models_by_stream_type[key]
RegistryLookup ==
    /\ Fresh
    /\ \E key \in LookupKeys :
        lookup' = [key |-> key, res |-> getitem(models_by_stream_type, key)]
    /\ UNCHANGED <<locn, ent, enc, dec, env, ser, rcv, got, asg, txt, nk, xdec>>

\* cls(**input) of an envelope class: the instances it may build, one for
\* each value the default factories may return for the fields input leaves out
Construct(cls, input) ==
    { ValidateFields(cls, SystemEventBaseModel(cls, id, now), input) :
        id \in (IF "event_id" \in DOMAIN input THEN {0} ELSE 1..MaxIds),
        now \in (IF "timestamp" \in DOMAIN input THEN {0} ELSE 1..MaxClock) }

ConstructEnvelope ==
    /\ Fresh
    /\ \E cls \in EnvelopeClasses : \E input \in EnvelopeInputs :
       \E res \in Construct(cls, input) :
        env' = [cls |-> cls, input |-> input, res |-> res]
    /\ UNCHANGED <<locn, ent, enc, dec, lookup, ser, rcv, got, asg, txt, nk, xdec>>

\* the transformer wraps the encoded entity: cls(payload=entity.dict())
WrapEntity ==
    /\ enc # Nothing /\ dec = Nothing /\ env = Nothing
    /\ \E cls \in WrapClasses : \E res \in Construct(cls, "payload" :> enc) :
        env' = [cls |-> cls, input |-> ("payload" :> enc), res |-> res]
    /\ UNCHANGED <<locn, ent, enc, dec, lookup, ser, rcv, got, asg, txt, nk, xdec>>

\* op(self, include, exclude) for op = "dict" and op = "json"
Serialize(op, self, include, exclude) ==
    IF op = "dict" THEN SystemEventBaseModel_dict(self, include, exclude)
    ELSE SystemEventBaseModel_json(self, include, exclude)

\* envelope.dict(include=..., exclude=...)
EnvelopeDict ==
    /\ env # Nothing /\ env.res.status = "ok" /\ ser = Nothing /\ asg = Nothing
    /\ \E include \in IncludeArgs : \E exclude \in ExcludeArgs :
        ser' = [op |-> "dict", include |-> include, exclude |-> exclude, n |-> 1,
                out |-> Serialize("dict", env.res.value, include, exclude)]
    /\ UNCHANGED <<locn, ent, enc, dec, lookup, env, rcv, got, asg, txt, nk, xdec>>

\* envelope.json(include=..., exclude=...)
EnvelopeJson ==
    /\ env # Nothing /\ env.res.status = "ok" /\ ser = Nothing /\ asg = Nothing
    /\ \E include \in IncludeArgs : \E exclude \in ExcludeArgs :
        ser' = [op |-> "json", include |-> include, exclude |-> exclude, n |-> 1,
                out |-> Serialize("json", env.res.value, include, exclude)]
    /\ UNCHANGED <<locn, ent, enc, dec, lookup, env, rcv, got, asg, txt, nk, xdec>>

\* the same serialization of the same envelope, once more
SerializeAgain ==
    /\ ser # Nothing /\ rcv = Nothing /\ xdec = Nothing /\ ser.n < MaxEncodes
    /\ ser' = [ser EXCEPT !.n = @ + 1,
                          !.out = Serialize(ser.op, env.res.value, ser.include, ser.exclude)]
    /\ UNCHANGED <<locn, ent, enc, dec, lookup, env, rcv, got, asg, txt, nk, xdec>>

\* the consumer decodes the whole serialized envelope into the class it
\* expects: cls(**data), cls.parse_raw(text)
DecodeEnvelope ==
    /\ ser # Nothing /\ rcv = Nothing /\ xdec = Nothing
    /\ ser.include = NoKeys /\ ser.exclude = NoKeys
    /\ \E res \in Construct(env.cls, ser.out.d) : rcv' = res
    /\ UNCHANGED <<locn, ent, enc, dec, lookup, env, ser, got, asg, txt, nk, xdec>>

\* the classes a consumer may pick to decode an envelope of another class
DecodeAsClasses ==
    { "ObservationDelivered", "ObservationDeliveryFailed", "IntegrationDeleted",
      "ActionConfigDeleted", "AttachmentTransformedER" }

\* the consumer decodes the dict() of the envelope into a class cls of its own
\* choosing, cls(**data), and encodes what it got: cls(**data).dict()
DecodeEnvelopeAs ==
    /\ ser # Nothing /\ rcv = Nothing /\ xdec = Nothing
    /\ ser.op = "dict" /\ ser.include = NoKeys /\ ser.exclude = NoKeys
    /\ \E cls \in DecodeAsClasses \ {env.cls} : \E res \in Construct(cls, ser.out.d) :
        xdec' = [cls |-> cls, res |-> res,
                 out |-> IF res.status = "ok"
                         THEN Serialize("dict", res.value, NoKeys, NoKeys)
                         ELSE Nothing]
    /\ UNCHANGED <<locn, ent, enc, dec, lookup, env, ser, rcv, got, asg, txt, nk>>

\* the consumer decodes the payload of the envelope through the registry
DecodePayload ==
    /\ rcv # Nothing /\ rcv.status = "ok" /\ got = Nothing
    /\ rcv.value.d["payload"].k = "dict"
    /\ got' = decode(rcv.value.d["payload"])
    /\ UNCHANGED <<locn, ent, enc, dec, lookup, env, ser, rcv, asg, txt, nk, xdec>>

\* BaseModel.__setattr__(self, name, value) under the default Config, which
\* none of the classes overrides (extra = ignore, allow_mutation = True,
\* validate_assignment = False): a name that is not a field raises
\* ValueError, a field takes the value as it is
setattr(self, name, value) ==
    IF name \notin DOMAIN self.d
    THEN [status |-> "ValueError", self |-> self]
    ELSE [status |-> "ok", self |-> [self EXCEPT !.d[name] = value]]

\* the names and the value assigned
AssignedNames == {"gundi_id", "observation_type", "event_id", "timestamp", "payload", "nosuch"}
AssignedValue == Str("other")

\* entity.name = value, on a constructed entity nobody has encoded yet
AssignEntityAttribute ==
    /\ ent # Nothing /\ ent.res.status = "ok"
    /\ enc = Nothing /\ asg = Nothing /\ txt = Nothing
    /\ \E name \in AssignedNames :
        LET r == setattr(ent.res.value, name, AssignedValue)
        IN  asg' = [of |-> "entity", name |-> name, value |-> AssignedValue,
                    status |-> r.status, before |-> ent.res.value, after |-> r.self]
    /\ UNCHANGED <<locn, ent, enc, dec, lookup, env, ser, rcv, got, txt, nk, xdec>>

\* envelope.name = value, on a constructed envelope nobody has serialized yet
AssignEnvelopeAttribute ==
    /\ env # Nothing /\ env.res.status = "ok"
    /\ ser = Nothing /\ asg = Nothing
    /\ \E name \in AssignedNames :
        LET r == setattr(env.res.value, name, AssignedValue)
        IN  asg' = [of |-> "envelope", name |-> name, value |-> AssignedValue,
                    status |-> r.status, before |-> env.res.value, after |-> r.self]
    /\ UNCHANGED <<locn, ent, enc, dec, lookup, env, ser, rcv, got, txt, nk, xdec>>

Next ==
    \/ ConstructLocation
    \/ ConstructEntity
    \/ EncodeEntity
    \/ DecodeEntity
    \/ RegistryLookup
    \/ ConstructEnvelope
    \/ WrapEntity
    \/ EnvelopeDict
    \/ EnvelopeJson
    \/ SerializeAgain
    \/ DecodeEnvelope
    \/ DecodePayload
    \/ AssignEntityAttribute
    \/ AssignEnvelopeAttribute
    \/ EntityJson
    \/ ConstructNaturalKeyed
    \/ DecodeEnvelopeAs

Spec == Init /\ [][Next]_vars

-----------------------------------------------------------------------------
(* properties *)

\* BaseModel.__eq__ compares dict()s; datetimes compare as datetime.__eq__ does
RECURSIVE PyEq(_, _)
PyEq(a, b) ==
    IF a.k = "dt" /\ b.k = "dt" THEN DtEq(a, b)
    ELSE IF a.k \in {"model", "dict"} /\ b.k \in {"model", "dict"}
         THEN /\ DOMAIN a.d = DOMAIN b.d
              /\ \A n \in DOMAIN a.d : PyEq(a.d[n], b.d[n])
         ELSE a = b

\* the discriminator the data model fixes for each entity type
FixedDiscriminator ==
    [Observation |-> "obv", Event |-> "ev", EventUpdate |-> "evu", Attachment |-> "att"]

Paths(errors) == { e.loc : e \in errors }

\* C3 - Discriminator fixity: a constructed entity holds, and its dict() emits,
\* the fixed observation_type of its type; an input whose observation_type
\* differs from it constructs nothing.
C3_DiscriminatorFixity ==
    /\ (ent # Nothing /\ ent.res.status = "ok") =>
          ent.res.value.d["observation_type"] = Str(FixedDiscriminator[ent.cls])
    /\ enc # Nothing => enc.d["observation_type"] = Str(FixedDiscriminator[ent.cls])
    /\ (ent # Nothing
          /\ Get(ent.input, "observation_type") \notin {Missing, Str(FixedDiscriminator[ent.cls])})
       => ent.res.status # "ok"

C3_Witness ==
    /\ ent # Nothing /\ ent.cls = "Event"
    /\ Get(ent.input, "observation_type") = Str("obv")
    /\ ent.res.status = "ValidationError"
    /\ Paths(ent.res.errors) = {<<"observation_type">>}

\* C4 - Registry dispatch: 'obv', 'ev' and 'att' look up Observation, Event
\* and Attachment, whose fixed observation_type is the key; any other key
\* fails with KeyError and yields no class.
C4_RegistryDispatch ==
    lookup # Nothing =>
        /\ lookup.key = Str("obv") => lookup.res.found /\ lookup.res.value = "Observation"
        /\ lookup.key = Str("ev") => lookup.res.found /\ lookup.res.value = "Event"
        /\ lookup.key = Str("att") => lookup.res.found /\ lookup.res.value = "Attachment"
        /\ lookup.res.found =>
              Str(FixedDiscriminator[lookup.res.value]) = lookup.key
        /\ lookup.key \notin {Str("obv"), Str("ev"), Str("att")} =>
              ~lookup.res.found /\ lookup.res.value = "" /\ lookup.res.error = "KeyError"

C4_Witness ==
    lookup # Nothing /\ lookup.key = Str("evu") /\ lookup.res.error = "KeyError"

\* C5 - Round trip: decoding the dict() of any constructed entity through the
\* registry yields an entity equal to it.
C5_RoundTrip ==
    dec # Nothing => dec.status = "ok" /\ PyEq(dec.value, ent.res.value)

\* the round trip of the types the registry holds
RoundTripRegistered ==
    (dec # Nothing /\ ent.cls # "EventUpdate") =>
        dec.status = "ok" /\ PyEq(dec.value, ent.res.value) /\ dec.value.cls = ent.cls

\* C6 - Timezone normalization: a naive recorded_at gets the UTC offset with
\* its wall clock unchanged, a UTC one is kept, normalizing again changes
\* nothing, and every constructed Observation or Event has an aware recorded_at.
C6_TimezoneNormalization ==
    (ent # Nothing /\ ent.cls \in {"Observation", "Event"} /\ ent.res.status = "ok") =>
        LET given == parse_datetime(ent.input["recorded_at"]).v
            kept == ent.res.value.d["recorded_at"]
        IN  /\ kept.k = "dt" /\ kept.aware
            /\ ~given.aware => kept = Dt(given.wall, TRUE, 0)
            /\ (given.aware /\ given.off = 0) => kept = given
            /\ clean_recorded_at(kept) = Ok(kept)
            /\ ent.input["recorded_at"] = DtText(W1, "T", "") =>
                  isoformat(kept) = DtText(W1, "T", "+00:00")

C6_Witness ==
    /\ ent # Nothing /\ ent.cls = "Observation" /\ ent.res.status = "ok"
    /\ ent.input["recorded_at"] = DtText(W1, "T", "")
    /\ ent.res.value.d["recorded_at"] = Dt(W1, TRUE, 0)

InRange(v, lo, hi) == v.k = "num" /\ lo <= v.v /\ v.v <= hi

\* C8 - Location range enforcement: a Location is constructed only with
\* -90 <= lat <= 90 and -180 <= lon <= 360, the bounds included; a lat or lon
\* outside its range fails with a validation error citing that field.
C8_LocationRange ==
    locn # Nothing =>
        LET lat == Get(locn.input, "lat")
            lon == Get(locn.input, "lon")
        IN  /\ locn.res.status = "ok" <=> (InRange(lat, -90, 90) /\ InRange(lon, -180, 360))
            /\ locn.res.status \in {"ok", "ValidationError"}
            /\ (lat.k = "num" /\ ~InRange(lat, -90, 90)) =>
                  <<"lat">> \in Paths(locn.res.errors)
            /\ (lon.k = "num" /\ ~InRange(lon, -180, 360)) =>
                  <<"lon">> \in Paths(locn.res.errors)
            /\ <<"lat">> \in Paths(locn.res.errors) => ~InRange(lat, -90, 90)
            /\ <<"lon">> \in Paths(locn.res.errors) => ~InRange(lon, -180, 360)

C8_Witness ==
    /\ locn # Nothing /\ Get(locn.input, "lat") = Num(91)
    /\ Get(locn.input, "lon") = Num(360)
    /\ locn.res.status = "ValidationError"
    /\ Paths(locn.res.errors) = {<<"lat">>}

\* C9 - Location altitude, as claimed: every constructed Location has
\* alt >= 0 and a negative alt fails validation.
C9_AltNonNegative ==
    locn # Nothing =>
        /\ locn.res.status = "ok" => locn.res.value.d["alt"].v >= 0
        /\ (Get(locn.input, "alt").k = "num" /\ Get(locn.input, "alt").v < 0) =>
              locn.res.status = "ValidationError"

\* C9 - Location altitude, amended: alt is 0 when omitted and otherwise the
\* number given, negative ones included; alt never appears in the errors of
\* a numeric alt.
C9_AltUnconstrained ==
    locn # Nothing =>
        LET alt == Get(locn.input, "alt")
        IN  /\ (locn.res.status = "ok" /\ alt = Missing) =>
                  locn.res.value.d["alt"] = Num(0)
            /\ (locn.res.status = "ok" /\ alt.k = "num") =>
                  locn.res.value.d["alt"] = alt
            /\ alt.k \in {"num", "missing"} => <<"alt">> \notin Paths(locn.res.errors)
            /\ (InRange(Get(locn.input, "lat"), -90, 90)
                  /\ InRange(Get(locn.input, "lon"), -180, 360)
                  /\ alt.k = "num") => locn.res.status = "ok"

C9_Witness ==
    /\ locn # Nothing /\ locn.res.status = "ok"
    /\ Get(locn.input, "alt") = Num(-5)
    /\ locn.res.value.d["alt"] = Num(-5)

\* the field constraints of the entity types an input violates, as paths
LocationViolations(d) ==
    { <<"lat">> : x \in { z \in {1} : ~InRange(Get(d, "lat"), -90, 90) } }
    \cup { <<"lon">> : x \in { z \in {1} : ~InRange(Get(d, "lon"), -180, 360) } }

ViolatedPaths(cls, inp) ==
    LET r == Get(inp, "recorded_at")
        l == Get(inp, "location")
        o == Get(inp, "observation_type")
        p == Get(inp, "file_path")
        recorded_at ==
            IF cls \in {"Observation", "Event"}
                 /\ (r = Missing \/ r.k = "str" \/ (r = None /\ cls = "Observation"))
            THEN {<<"recorded_at">>} ELSE {}
        location ==
            IF cls \notin {"Observation", "Event"} THEN {}
            ELSE IF l.k = "dict" THEN { <<"location">> \o q : q \in LocationViolations(l.d) }
            ELSE IF l.k = "str" \/ (cls = "Observation" /\ l \in {Missing, None})
                 THEN {<<"location">>} ELSE {}
        observation_type ==
            IF o \notin {Missing, Str(FixedDiscriminator[cls])}
            THEN {<<"observation_type">>} ELSE {}
        file_path ==
            IF cls = "Attachment" /\ p \in {Missing, None} THEN {<<"file_path">>} ELSE {}
    IN  recorded_at \cup location \cup observation_type \cup file_path

\* C10 - Validation is all-or-nothing and exhaustive: constructing an entity
\* yields an instance and the input violates no field constraint, or it fails
\* with a validation error whose paths are exactly the violated fields and
\* yields no instance.
C10_AllOrNothing ==
    ent # Nothing =>
        \/ /\ ent.res.status = "ok" /\ ent.res.value.k = "model"
           /\ ViolatedPaths(ent.cls, ent.input) = {}
        \/ /\ ent.res.status = "ValidationError" /\ ent.res.value = None
           /\ Paths(ent.res.errors) = ViolatedPaths(ent.cls, ent.input)
           /\ ent.res.errors # {}

\* the same, for every input but an Event whose recorded_at is None
AllOrNothingButNone ==
    (ent # Nothing /\ ~(ent.cls = "Event" /\ Get(ent.input, "recorded_at") = None)) =>
        \/ /\ ent.res.status = "ok" /\ ent.res.value.k = "model"
           /\ ViolatedPaths(ent.cls, ent.input) = {}
        \/ /\ ent.res.status = "ValidationError" /\ ent.res.value = None
           /\ Paths(ent.res.errors) = ViolatedPaths(ent.cls, ent.input)
           /\ ent.res.errors # {}

\* an Event whose recorded_at is None raises AttributeError out of the validator
EventNoneRaises ==
    (ent # Nothing /\ ent.cls = "Event" /\ Get(ent.input, "recorded_at") = None) =>
        ent.res.status = "AttributeError"

\* C1 - Envelope tagging: dict() of an envelope emits event_type equal to the
\* name of its class whatever event_type the caller passed; event_type is not
\* a field of the instance; encoding again yields the same event_type and
\* leaves the instance as it was.
C1_EnvelopeTagging ==
    /\ [](/\ (env # Nothing /\ env.res.status = "ok") =>
                DOMAIN env.res.value.d = {"event_id", "timestamp", "schema_version", "payload"}
          /\ (ser # Nothing /\ ser.op = "dict") => ser.out.d["event_type"] = Str(env.cls))
    /\ [][(ser # Nothing /\ ser.op = "dict" /\ ser'.n = ser.n + 1) =>
             (ser'.out.d["event_type"] = ser.out.d["event_type"] /\ env' = env)]_vars

C1_Witness ==
    /\ ser # Nothing /\ ser.op = "dict" /\ ser.n = 2
    /\ env.cls = "ObservationDelivered"
    /\ Get(env.input, "event_type") = Str("Bogus")
    /\ ser.out.d["event_type"] = Str("ObservationDelivered")

\* C2 - event_type in every serialized representation: the output of dict()
\* and of json(), with any include and exclude, holds event_type equal to
\* the name of the envelope's class.
C2_EventTypeInEverySerialization ==
    ser # Nothing =>
        /\ "event_type" \in DOMAIN ser.out.d
        /\ ser.out.d["event_type"] = Str(env.cls)

\* json() never emits event_type
JsonOmitsEventType ==
    (ser # Nothing /\ ser.op = "json") => "event_type" \notin DOMAIN ser.out.d

\* C7 - End-to-end pipeline: an Observation constructed with a recorded_at of
\* a non-UTC offset, encoded, wrapped in a transformer envelope, encoded by
\* dict() and decoded by the consumer comes out with recorded_at converted to
\* UTC (offset +00:00), the same location, and the envelope carried
\* event_type equal to its class name.
C7_EndToEnd ==
    (got # Nothing /\ ent # Nothing /\ ser.op = "dict" /\ ent.cls = "Observation"
        /\ env.cls \in {"SystemEventBaseModel", "ObservationTransformedER"}
        /\ ent.input["recorded_at"].k = "dttext"
        /\ ent.input["recorded_at"].tz \in {"+0200", "-0700"}) =>
        /\ got.status = "ok"
        /\ got.value.d["recorded_at"] =
              Dt(ent.input["recorded_at"].wall - TzOffsets[ent.input["recorded_at"].tz], TRUE, 0)
        /\ got.value.d["location"] = ent.res.value.d["location"]
        /\ ser.out.d["event_type"] = Str(env.cls)

\* what the pipeline does deliver: the recorded_at as constructed (same
\* instant, offset kept), the location and the event_type
EndToEndKeepsOffset ==
    (got # Nothing /\ ent # Nothing /\ ser.op = "dict" /\ ent.cls = "Observation"
        /\ env.cls \in {"SystemEventBaseModel", "ObservationTransformedER"}) =>
        /\ got.status = "ok"
        /\ got.value.d["recorded_at"] = ent.res.value.d["recorded_at"]
        /\ got.value.d["location"] = ent.res.value.d["location"]
        /\ ser.out.d["event_type"] = Str(env.cls)

\* C11 - Immutability after validation: an attribute assignment on a
\* constructed entity or envelope leaves every field value as it was; gundi_id,
\* observation_type, event_id, timestamp and payload stay as constructed.
C11_Immutability ==
    asg # Nothing =>
        /\ asg.after = asg.before
        /\ \A n \in DOMAIN asg.before.d \cap AssignedNames :
              asg.after.d[n] = asg.before.d[n]

\* what an assignment does: a field takes the assigned value unvalidated and
\* the other fields stay; a name that is not a field raises ValueError
AssignmentMutates ==
    asg # Nothing =>
        IF asg.name \in DOMAIN asg.before.d
        THEN /\ asg.status = "ok"
             /\ asg.after.d[asg.name] = asg.value
             /\ \A n \in DOMAIN asg.before.d \ {asg.name} : asg.after.d[n] = asg.before.d[n]
        ELSE asg.status = "ValueError" /\ asg.after = asg.before

\* the fields typed Union[UUID, str] that the inputs supply
IdentifierFields == {"gundi_id"}

\* C12 - Identifier textual preservation: a Union[UUID, str] field accepts a
\* UUID text and a non-UUID string, and the JSON encoding of the constructed
\* entity holds the identifier in the textual form the input gave it.
C12_IdentifierTextPreserved ==
    /\ (ent # Nothing /\ ent.res.status = "ValidationError") =>
          \A n \in IdentifierFields : <<n>> \notin Paths(ent.res.errors)
    /\ txt # Nothing =>
          \A n \in IdentifierFields \cap DOMAIN ent.input :
              IsStr(ent.input[n]) => txt.d[n] = ent.input[n]

\* what the encoding holds: a non-UUID string as given, a UUID-shaped text as
\* the canonical text of the same UUID
IdentifierCanonicalized ==
    txt # Nothing =>
        \A n \in IdentifierFields \cap DOMAIN ent.input :
            /\ ent.input[n].k = "str" => txt.d[n] = ent.input[n]
            /\ ent.input[n].k = "uuidtext" =>
                  /\ ent.res.value.d[n] = Uuid(ent.input[n].v)
                  /\ txt.d[n] = UuidText(ent.input[n].v, "canonical")

\* the text is a natural key: ^[a-z0-9_]+$ and 2 to 200 characters
IsNaturalKey(v) ==
    /\ v.k = "str"
    /\ NaturalKeyTexts[v.v].matches
    /\ NaturalKeyTexts[v.v].len >= 2 /\ NaturalKeyTexts[v.v].len <= 200

NaturalKeySuppliedOnly ==
    nk # Nothing =>
        LET v == Get(nk.input, "value")
        IN  /\ (v.k = "str" /\ ~IsNaturalKey(v)) => <<"value">> \in Paths(nk.res.errors)
            /\ (v.k = "str" /\ IsNaturalKey(v)) => <<"value">> \notin Paths(nk.res.errors)
            /\ (nk.res.status = "ok" /\ v.k = "str") => nk.res.value.d["value"] = v
            /\ (nk.res.status = "ok" /\ v = Missing) => nk.res.value.d["value"] = Str("")
            /\ (nk.res.status = "ok" /\ v = None) => nk.res.value.d["value"] = None

\* the fields an input must provide, by entity type
RequiredFields ==
    [Observation |-> {"recorded_at", "location"}, Event |-> {"recorded_at"},
     EventUpdate |-> {}, Attachment |-> {"file_path"}]

\* C14 - Required-field presence: an input leaving out a required field of
\* its type constructs nothing and the field is reported missing; an
\* EventUpdate is constructed from the empty input; a constructed Observation
\* or Event holds a recorded_at and a constructed Attachment a file_path.
C14_RequiredFields ==
    ent # Nothing =>
        /\ \A n \in RequiredFields[ent.cls] \ DOMAIN ent.input :
              /\ ent.res.status = "ValidationError"
              /\ Err(<<n>>, "value_error.missing") \in ent.res.errors
        /\ (ent.cls = "EventUpdate" /\ ent.input = EmptyMap) => ent.res.status = "ok"
        /\ (ent.res.status = "ok" /\ ent.cls \in {"Observation", "Event"}) =>
              ent.res.value.d["recorded_at"].k = "dt"
        /\ (ent.res.status = "ok" /\ ent.cls = "Observation") =>
              ent.res.value.d["location"].k = "model"
        /\ (ent.res.status = "ok" /\ ent.cls = "Attachment") =>
              ent.res.value.d["file_path"].k = "str"

C14_Witness ==
    /\ ent # Nothing /\ ent.cls = "Event"
    /\ "recorded_at" \notin DOMAIN ent.input
    /\ ent.res.status = "ValidationError"
    /\ ent.res.errors = {Err(<<"recorded_at">>, "value_error.missing")}

\* an EventUpdate constructed from the empty input
EventUpdateFromNothing ==
    ent # Nothing /\ ent.cls = "EventUpdate" /\ ent.input = EmptyMap /\ ent.res.status = "ok"

\* the value carries an explicit offset: an aware datetime, or a text with a
\* zone suffix
HasOffset(v) ==
    \/ v.k = "dt" /\ v.aware
    \/ v.k = "dttext" /\ v.tz # ""

\* C15 - Wire-format conformance of envelopes: the whole encoding of any
\* constructed envelope has a UUID event_id, a timestamp with an explicit
\* offset and a string schema_version, "v1" when not supplied and otherwise
\* the supplied value, which the consumer's decoding carries unchanged.
C15_WireFormat ==
    /\ (ser # Nothing /\ ser.include = NoKeys /\ ser.exclude = NoKeys) =>
          /\ ser.out.d["event_id"].k \in {"uuid", "uuidtext"}
          /\ HasOffset(ser.out.d["timestamp"])
          /\ ser.out.d["schema_version"].k = "str"
          /\ "schema_version" \notin DOMAIN env.input =>
                ser.out.d["schema_version"] = Str("v1")
          /\ "schema_version" \in DOMAIN env.input =>
                ser.out.d["schema_version"] = env.input["schema_version"]
    /\ (rcv # Nothing /\ rcv.status = "ok") =>
          rcv.value.d["schema_version"] = ser.out.d["schema_version"]

\* what the encoding does hold: event_id is a UUID; a defaulted timestamp is
\* in UTC and a supplied one has the offset it was given, none if it had none;
\* schema_version is "v1" by default and otherwise as supplied, None included
WireFormatAsSupplied ==
    /\ (ser # Nothing /\ ser.include = NoKeys /\ ser.exclude = NoKeys) =>
          /\ ser.out.d["event_id"].k \in {"uuid", "uuidtext"}
          /\ "timestamp" \notin DOMAIN env.input =>
                /\ HasOffset(ser.out.d["timestamp"])
                /\ env.res.value.d["timestamp"].off = 0
          /\ "timestamp" \in DOMAIN env.input =>
                (HasOffset(ser.out.d["timestamp"]) <=> env.input["timestamp"].tz # "")
          /\ "schema_version" \notin DOMAIN env.input =>
                ser.out.d["schema_version"] = Str("v1")
          /\ "schema_version" \in DOMAIN env.input =>
                ser.out.d["schema_version"] = env.input["schema_version"]
    /\ (rcv # Nothing /\ rcv.status = "ok") =>
          rcv.value.d["schema_version"] = ser.out.d["schema_version"]

\* C16 - Envelope decoding follows the consumer's class: the dict() of an
\* envelope decodes without error into another class with the same payload
\* type; the result encodes with event_type equal to that class's name, not
\* the one in the input, and event_id, timestamp, schema_version and payload
\* are those of the original.
C16_DecodeIgnoresEventType ==
    (xdec # Nothing /\ PayloadType[xdec.cls] = PayloadType[env.cls]) =>
        /\ xdec.res.status = "ok"
        /\ xdec.res.value.cls = xdec.cls
        /\ Get(ser.out.d, "event_type") = Str(env.cls)
        /\ Get(xdec.out.d, "event_type") = Str(xdec.cls)
        /\ Get(xdec.out.d, "event_type") # Get(ser.out.d, "event_type")
        /\ \A n \in {"event_id", "timestamp", "schema_version", "payload"} :
              /\ PyEq(xdec.res.value.d[n], env.res.value.d[n])
              /\ PyEq(xdec.out.d[n], ser.out.d[n])

C16_Witness ==
    /\ xdec # Nothing /\ env.cls = "ObservationDelivered"
    /\ xdec.cls = "ObservationDeliveryFailed"
    /\ xdec.res.status = "ok"
    /\ ser.out.d["event_type"] = Str("ObservationDelivered")
    /\ xdec.out.d["event_type"] = Str("ObservationDeliveryFailed")
    /\ xdec.res.value.d["payload"] = env.res.value.d["payload"]

====
